---- MODULE Spec2Model ----
(***************************************************************************)
(* A model of news_bot.py: the subscriber registry (SubscriberManager),    *)
(* the record of delivered news (SentNewsTracker), the command consumer    *)
(* (TelegramBot.process_updates, run by the commands thread) and the poll  *)
(* cycle (NewsMonitorBot.run / check_and_send_news / broadcast_articles,   *)
(* run by the main thread).                                                *)
(*                                                                         *)
(* Granularity.  A handler is cut into steps at its I/O calls, so that the *)
(* two threads interleave and the process can crash between them.  A file  *)
(* write (open 'w' + json.dump) is one step: the file holds the old or the *)
(* new snapshot, never a torn one.  A save never fails in these            *)
(* specifications, except in SpecSaveFail, where a save of the registry    *)
(* may fail.  Time is counted in whole days.                               *)
(***************************************************************************)
EXTENDS Integers, Sequences, FiniteSets, TLC

\* ------------------------------------------------------------------ bounds
MaxCmds == 3          \* commands the users send in one run
MaxCrashes == 1       \* process restarts in one run
MaxRedeliver == 1     \* updates the transport hands out a second time
MaxReplayCmds == 2    \* commands the users send in a run with such a transport
MaxDay == 8           \* the clock stops advancing at this day
MaxBatches == 2       \* poll cycles in which the news source returns articles
MaxCycles == 3        \* poll cycles of one run that are followed
MaxItems == 3         \* articles of a batch handed to broadcast_articles directly
MaxConcCmds == 1      \* commands sent while the two threads run side by side
MaxConcCycles == 1    \* poll cycles followed while the two threads run side by side
MaxConcAnswers == 1   \* queries the news source answers then, per cycle
MaxSignals == 1       \* KeyboardInterrupts raised in one run
MaxSignalCycles == 2  \* poll cycles followed in a run with a KeyboardInterrupt
NumQueries == 2       \* length of NewsFetcher.queries

\* ------------------------------------------------------- program constants
ExactHorizonDays == 7
FuzzyHorizonDays == 3
SimilarityPercent == 85
CleanupDays == 30
CleanupEvery == 24

\* ---------------------------------------------------------------- universes
Chats == {"42", "43"}
Texts == {"/start", "/stop", "/status", "hello"}
\* The transport numbers the updates first, first + step, ... (ids need not be
\* consecutive): <<first, step>>.
IdStreams == {<<1, 1>>, <<5, 2>>}
\* What time.sleep(CHECK_INTERVAL_MINUTES * 60) adds to the clock, in days.
DaySteps == {0, 3, 4}
\* run's iteration count where a specification picks the main loop up: at
\* its start, or after quiet cycles (no news, no time passed) that leave the
\* next cleanup two cycles away.
StartIterations == {0, CleanupEvery - 2}

Range(s) == {s[i] : i \in DOMAIN s}

\* A set as some sequence without repetition (list(a_set): the order is
\* whatever the hash table gives; one order is fixed here).
RECURSIVE SetToSeq(_)
SetToSeq(S) ==
    IF S = {} THEN <<>>
    ELSE LET x == CHOOSE y \in S : TRUE IN <<x>> \o SetToSeq(S \ {x})

\* ================================================================ strings
\* A str is a sequence of characters.
IsSpace(c) == c = " "

LowerChar(c) ==
    CASE c = "A" -> "a"
      [] c = "B" -> "b"
      [] c = "C" -> "c"
      [] c = "X" -> "x"
      [] OTHER -> c

\* str.lower()
Lower(s) == [i \in DOMAIN s |-> LowerChar(s[i])]

RECURSIVE LStrip(_)
LStrip(s) == IF s # <<>> /\ IsSpace(Head(s)) THEN LStrip(Tail(s)) ELSE s

RECURSIVE RStrip(_)
RStrip(s) ==
    IF s # <<>> /\ IsSpace(s[Len(s)]) THEN RStrip(SubSeq(s, 1, Len(s) - 1)) ELSE s

\* str.strip()
Strip(s) == RStrip(LStrip(s))

\* set(str.split()): the maximal runs of non-space characters.
RECURSIVE SplitWords(_, _)
SplitWords(s, cur) ==
    IF s = <<>> THEN (IF cur = <<>> THEN {} ELSE {cur})
    ELSE IF IsSpace(Head(s))
         THEN (IF cur = <<>> THEN {} ELSE {cur}) \cup SplitWords(Tail(s), <<>>)
         ELSE SplitWords(Tail(s), Append(cur, Head(s)))

Split(s) == SplitWords(s, <<>>)

\* Titles is_duplicate is called with, and titles of stored records.
\* "a b c"
TitleABC == <<"a", " ", "b", " ", "c">>
\* "a b d"
TitleABD == <<"a", " ", "b", " ", "d">>
\* ""
TitleEmpty == <<>>
\* "x"
TitleX == <<"x">>
\* " c  B a a "
TitleMixed == <<" ", "c", " ", " ", "B", " ", "a", " ", "a", " ">>
\* "Bank X files for bankruptcy"
TitleBank == <<"B", "a", "n", "k", " ", "X", " ", "f", "i", "l", "e", "s", " ", "f", "o", "r", " ", "b", "a", "n", "k", "r", "u", "p", "t", "c", "y">>
\* "Bank X files for bankruptcy protection"
TitleBankProtection == <<"B", "a", "n", "k", " ", "X", " ", "f", "i", "l", "e", "s", " ", "f", "o", "r", " ", "b", "a", "n", "k", "r", "u", "p", "t", "c", "y", " ", "p", "r", "o", "t", "e", "c", "t", "i", "o", "n">>
\* "bankruptcy for files x Bank"
TitleBankReordered == <<"b", "a", "n", "k", "r", "u", "p", "t", "c", "y", " ", "f", "o", "r", " ", "f", "i", "l", "e", "s", " ", "x", " ", "B", "a", "n", "k">>
\* "a b c d e f g h i j k l m n o p q r"
Title17Plus1 == <<"a", " ", "b", " ", "c", " ", "d", " ", "e", " ", "f", " ", "g", " ", "h", " ", "i", " ", "j", " ", "k", " ", "l", " ", "m", " ", "n", " ", "o", " ", "p", " ", "q", " ", "r">>
\* "a b c d e f g h i j k l m n o p q s t"
Title17Plus2 == <<"a", " ", "b", " ", "c", " ", "d", " ", "e", " ", "f", " ", "g", " ", "h", " ", "i", " ", "j", " ", "k", " ", "l", " ", "m", " ", "n", " ", "o", " ", "p", " ", "q", " ", "s", " ", "t">>
\* "a b c d e f"
TitleSix == <<"a", " ", "b", " ", "c", " ", "d", " ", "e", " ", "f">>
\* "a b c d e f g"
TitleSeven == <<"a", " ", "b", " ", "c", " ", "d", " ", "e", " ", "f", " ", "g">>
DedupTitles == {TitleABC, TitleABD, TitleEmpty, TitleX, TitleMixed, TitleBank, TitleBankProtection, TitleBankReordered, Title17Plus1, Title17Plus2, TitleSix, TitleSeven}
StoredTitles == {TitleBank, Title17Plus1, TitleSix}
CheckedTitles == {TitleEmpty, TitleABC, TitleBank, TitleBankProtection, TitleBankReordered,
                  Title17Plus2, TitleSix, TitleSeven}

\* ===================================================== SubscriberManager
\* save_subscribers: json.dump({'subscribers': list(self.subscribers)}).
SaveSubscribersSkips(mem, file) == file
SaveSubscribers(mem, file) == SetToSeq(mem)

\* load_subscribers: set(data.get('subscribers', [])); a missing file is <<>>.
LoadSubscribers(file) == Range(file)

\* save_subscribers when open or json.dump may raise: the exception is logged
\* and swallowed (lines 76-77).  The file is left as it was (open raised) or
\* truncated by open(..., 'w') (json.dump raised); load_subscribers reads a
\* truncated file as the empty registry (lines 59-68), which is <<>>.
SaveSubscribersNeverWrites(mem, file, ok) == {file}
SaveSubscribersMayFail(mem, file, ok) ==
    IF ok THEN {SaveSubscribers(mem, file)} ELSE {file, <<>>}

\* add_subscriber, the part before its save: the new set and the result.
AddSubscriberAlwaysTrue(subs, chat_id) == [changed |-> TRUE, subs |-> subs \cup {chat_id}]
AddSubscriberToggles(subs, chat_id) ==
    [changed |-> TRUE,
     subs |-> IF chat_id \notin subs THEN subs \cup {chat_id} ELSE subs \ {chat_id}]
AddSubscriberAddsAll(subs, chat_id) == [changed |-> chat_id \notin subs, subs |-> subs \cup Chats]
AddSubscriber(subs, chat_id) ==
    IF chat_id \notin subs
    THEN [changed |-> TRUE, subs |-> subs \cup {chat_id}]
    ELSE [changed |-> FALSE, subs |-> subs]

\* remove_subscriber, the part before its save.
RemoveSubscriberClears(subs, chat_id) ==
    IF chat_id \in subs
    THEN [changed |-> TRUE, subs |-> {}]
    ELSE [changed |-> FALSE, subs |-> subs]
RemoveSubscriberAlwaysTrue(subs, chat_id) == [changed |-> TRUE, subs |-> subs \ {chat_id}]
RemoveSubscriber(subs, chat_id) ==
    IF chat_id \in subs
    THEN [changed |-> TRUE, subs |-> subs \ {chat_id}]
    ELSE [changed |-> FALSE, subs |-> subs]

\* get_subscribers: list(self.subscribers), a snapshot.
GetSubscribers(subs) == SetToSeq(subs)

\* ======================================================== SentNewsTracker
\* datetime.isoformat() / datetime.fromisoformat(): the stored text of a day.
\* A stored sent_at that is no ISO date, and a record without sent_at.
IsoFormat(day) == [kind |-> "iso", day |-> day]
Malformed == [kind |-> "bad"]
Missing == [kind |-> "none"]
ParseOk(text) == text.kind = "iso"
FromIsoFormat(text) == text.day

\* (datetime.now() - sent_dt).days
DaysSince(today, text) == today - FromIsoFormat(text)

\* _similarity: <<|A & B|, |A | B|>>, <<0, 1>> for 0.0.
SimilarityOverFirst(s1, s2) ==
    IF Split(s1) = {} \/ Split(s2) = {} THEN <<0, 1>>
    ELSE <<Cardinality(Split(s1) \cap Split(s2)), Cardinality(Split(s1))>>
Similarity(s1, s2) ==
    IF s1 = <<>> \/ s2 = <<>> THEN <<0, 1>>
    ELSE LET words1 == Split(s1)
             words2 == Split(s2)
             intersection == Cardinality(words1 \cap words2)
             union == Cardinality(words1 \cup words2)
         IN IF union > 0 THEN <<intersection, union>> ELSE <<0, 1>>

\* similarity > 0.85
AboveThresholdExact(r) == r[1] = r[2]
AboveThreshold(r) == r[1] * 100 > SimilarityPercent * r[2]

\* is_duplicate, lines 190-199: the record of this very url.
UrlHitNever(store, today, url) == FALSE
UrlHitWithinFuzzyHorizon(store, today, url) ==
    /\ url \in DOMAIN store
    /\ store[url].sent_at.kind = "iso"
    /\ today - store[url].sent_at.day < FuzzyHorizonDays
UrlHitCountsMalformed(store, today, url) ==
    /\ url \in DOMAIN store
    /\ store[url].sent_at.kind = "iso" => today - store[url].sent_at.day < ExactHorizonDays
UrlHit(store, today, url) ==
    /\ url \in DOMAIN store
    /\ ParseOk(store[url].sent_at)
    /\ DaysSince(today, store[url].sent_at) < ExactHorizonDays

\* is_duplicate, lines 202-208: both titles lower-cased and stripped, then
\* compared.
TitleSimilarity(title, existing) == Similarity(Strip(Lower(title)), Strip(Lower(existing)))

\* is_duplicate, lines 202-216: a record with a similar title.
TitleHitIgnoresAge(store, today, title) ==
    \E k \in DOMAIN store :
        /\ AboveThreshold(TitleSimilarity(title, store[k].title))
        /\ store[k].sent_at.kind = "iso"
TitleHit(store, today, title) ==
    \E k \in DOMAIN store :
        /\ AboveThreshold(TitleSimilarity(title, store[k].title))
        /\ ParseOk(store[k].sent_at)
        /\ DaysSince(today, store[k].sent_at) < FuzzyHorizonDays

IsDuplicate(store, today, url, title) ==
    UrlHit(store, today, url) \/ TitleHit(store, today, title)

\* mark_as_sent, the part before its save.
MarkAsSentKeepsFirst(store, today, url, title) ==
    [k \in DOMAIN store \cup {url} |->
        IF k \in DOMAIN store THEN store[k]
        ELSE [title |-> title, sent_at |-> [kind |-> "iso", day |-> today]]]
MarkAsSent(store, today, url, title) ==
    [k \in DOMAIN store \cup {url} |->
        IF k = url THEN [title |-> title, sent_at |-> IsoFormat(today)] ELSE store[k]]

\* save_sent_news / load_sent_news: json.dump(self.sent_news) and back.
SaveSentNewsSkips(mem, file) == file
SaveSentNews(mem, file) == mem
LoadSentNews(file) == file

\* cleanup_old_entries, lines 248-251: data['sent_at'] and fromisoformat are
\* evaluated for every record, outside any try; one unusable sent_at raises.
CleanupRaises(store) == \E k \in DOMAIN store : ~ParseOk(store[k].sent_at)

\* cleanup_old_entries, the part before its save.
CleanupOldEntriesDropsAll(store, today, days) == [k \in {} |-> 0]
CleanupOldEntries(store, today, days) ==
    LET kept == {k \in DOMAIN store : FromIsoFormat(store[k].sent_at) > today - days}
    IN [k \in kept |-> store[k]]

\* cleanup_old_entries, lines 246 and 253: removed = initial_count - len(sent_news).
CleanupRemoved(store, today, days) ==
    Cardinality(DOMAIN store) - Cardinality(DOMAIN CleanupOldEntries(store, today, days))

\* cleanup_old_entries, line 254: it saves only when something was removed.
CleanupSavesAlways(removed) == TRUE
CleanupSaves(removed) == removed > 0

\* Python's None, among values that are None or an int.
NoneValue == [none |-> TRUE, value |-> 0]

\* cleanup_old_entries has no return statement: a call evaluates to None.
CleanupReturn(removed) == NoneValue

\* ============================================================= Translator
\* The translation service's answer for a text, character by character.
UkChar(c) ==
    CASE c = "a" -> "x"
      [] c = "A" -> "X"
      [] c = "b" -> "y"
      [] c = "c" -> "z"
      [] OTHER -> c

ServiceTranslation(text) == [i \in DOMAIN text |-> UkChar(text[i])]

\* translate_to_ukrainian; answered says whether the service gave a text.
TranslateToUkrainian(text, source_lang, answered) ==
    IF source_lang = "uk" \/ text = <<>> THEN text
    ELSE IF answered THEN ServiceTranslation(text) ELSE text

\* translate_article (the title).
TranslateArticle(article, answered) ==
    [url |-> article.url, title |-> article.title, lang |-> article.lang,
     title_uk |-> IF article.title # <<>>
                  THEN TranslateToUkrainian(article.title, article.lang, answered)
                  ELSE article.title]

\* ============================================================ NewsFetcher
\* queries[q]["lang"]: the list starts with the English queries.
QueryLang(q) == IF q = 1 THEN "en" ELSE "uk"

\* What the news source knows: two urls, two wordings of one story.
SourceArticles ==
    { [url |-> "u1", title |-> <<"a", " ", "b">>],
      [url |-> "u2", title |-> <<"A", " ", "b">>],
      [url |-> "u2", title |-> <<"c">>] }

\* search_news: None on an error, else the articles found (here at most one).
SourceAnswers == {<<>>} \cup {<<a>> : a \in SourceArticles}

\* get_recent_news: the inner loop over one query's articles.
RECURSIVE NewOfQuery(_, _, _, _)
NewOfQuery(store, today, lang, found) ==
    IF found = <<>> THEN <<>>
    ELSE LET a == Head(found)
             rest == NewOfQuery(store, today, lang, Tail(found))
         IN IF a.url # "" /\ ~IsDuplicate(store, today, a.url, a.title)
            THEN <<[url |-> a.url, title |-> a.title, lang |-> lang,
                    title_uk |-> a.title]>> \o rest
            ELSE rest

\* get_recent_news: the loop over the queries, from query q on.
RECURSIVE GetRecentNews(_, _, _, _)
GetRecentNews(store, today, answers, q) ==
    IF q > NumQueries THEN <<>>
    ELSE NewOfQuery(store, today, QueryLang(q), answers[q])
            \o GetRecentNews(store, today, answers, q + 1)

\* get_recent_news: how many articles the queries from q on returned.
RECURSIVE Found(_, _)
Found(answers, q) ==
    IF q > NumQueries THEN 0 ELSE Len(answers[q]) + Found(answers, q + 1)

\* ============================================================ TelegramBot
\* _save_bot_state / _load_bot_state: {'last_update_id': n}; a missing file
\* loads as 0 and is written here as 0.
SaveBotState(last_id) == last_id
LoadBotState(file) == file

\* get_updates: the offset asked of the transport.
GetUpdatesOffset(last_id) == last_id + 1

\* The transport's answer to getUpdates(offset): the pending updates from
\* offset on, oldest first.
Pending(queue, offset) ==
    SelectSeq(queue, LAMBDA u : u.update_id >= offset)

\* process_updates, lines 637-638: the offset taken from an update.
AdvanceOffsetCommandsOnly(last_id, update) ==
    IF update.text \in {"/start", "/stop", "/status"} THEN update.update_id ELSE last_id
AdvanceOffset(last_id, update) == update.update_id

NoReply == [to |-> "", kind |-> "none"]
Reply(chat_id, kind) == [to |-> chat_id, kind |-> kind]

\* broadcast_articles, lines 606-613: whether the broadcast goes on.
BroadcastProceedsWithoutSubscribers(subs, items) == items # <<>>
BroadcastProceeds(subs, items) == subs # <<>> /\ items # <<>>

\* broadcast_articles, lines 618-622: after article i of n is marked, the
\* next article is marked, or the sending starts.
AfterMarkSendsEarly(i, n) == [pc |-> "send", i |-> 0]
AfterMark(i, n) ==
    IF i < n THEN [pc |-> "mark", i |-> i + 1] ELSE [pc |-> "send", i |-> 0]

\* broadcast_articles, lines 625-631: message m of a subscriber's n + 2
\* (0 the header, 1..n the articles, n + 1 the completion notice).
MessageKind(m, n) == IF m = 0 THEN "header" ELSE IF m <= n THEN "item" ELSE "done"

\* broadcast_articles, lines 625-631: where the loops stand after message m
\* to subscriber s (of count) was sent with result ok.
\* broadcast_articles, lines 606 and 625: the loop runs over the list that
\* get_subscribers returned, whatever the registry holds by now.
RecipientIfStillSubscribed(snapshot, live, s) == IF snapshot[s] \in live THEN snapshot[s] ELSE ""
Recipient(snapshot, live, s) == snapshot[s]

\* broadcast_articles, lines 626-631: time.sleep(0.5) follows the send of an
\* article, inside the loop over the articles; none follows the header or
\* the completion notice.
SleepsAfter(kind) == kind = "item"

AfterSendAbortsOnFailure(s, m, ok, count, n) ==
    IF ok /\ m < n + 1 THEN [pc |-> "send", s |-> s, m |-> m + 1]
    ELSE IF s < count THEN [pc |-> "send", s |-> s + 1, m |-> 0]
    ELSE [pc |-> "cleanup", s |-> 0, m |-> 0]
AfterSend(s, m, ok, count, n) ==
    IF m < n + 1 THEN [pc |-> "send", s |-> s, m |-> m + 1]
    ELSE IF s < count THEN [pc |-> "send", s |-> s + 1, m |-> 0]
    ELSE [pc |-> "cleanup", s |-> 0, m |-> 0]

VARIABLES
    subscribers, subscribersFile,      \* SubscriberManager.subscribers, subscribers.json
    last_update_id, botStateFile,      \* TelegramBot.last_update_id, bot_state.json
    inbox, nextUpdateId, idStep,       \* the transport: unconfirmed updates, next id, id stride
    updates, cmdPc, lastReply,         \* process_updates: rest of the batch, position, last send
    issued, applied, consumed,         \* history: updates sent, mutations persisted, updates handled
    lastText, replay, preReplay,       \* history: per chat the last handled /start|/stop; the replay
    redelivered,
    sent_news, sentNewsFile,           \* SentNewsTracker.sent_news, sent_news.json
    now, iteration, pollPc,            \* the clock (days), run's iteration, main thread's position
    articles, duplicates_count,        \* get_recent_news: all_new_articles, duplicates_count
    recipients, bi, si,                \* broadcast_articles: subscribers, loop indices
    batchLog, failures, handed,        \* history: this broadcast's marks and sends, a send failed,
    batches, cycles,                   \*   url -> day of its mark in an earlier broadcast, counts
    crashes,
    call,                              \* the last direct call of a method: arguments, result
    running, signals                   \* NewsMonitorBot.running; KeyboardInterrupts raised so far

cmdVars == <<subscribers, subscribersFile, last_update_id, botStateFile,
             inbox, nextUpdateId, idStep, updates, cmdPc, lastReply>>
cmdHist == <<issued, applied, consumed, lastText, replay, preReplay, redelivered>>
pollVars == <<sent_news, sentNewsFile, now, iteration, pollPc, articles, duplicates_count,
              recipients, bi, si>>
pollHist == <<batchLog, failures, handed, batches, cycles>>
cmdSide == <<cmdVars, cmdHist>>
pollSide == <<pollVars, pollHist>>
sigVars == <<running, signals>>
vars == <<cmdVars, cmdHist, pollVars, pollHist, crashes, call, sigVars>>

NoUpdate == [update_id |-> 0, chat_id |-> "", text |-> ""]
NoPrev == [op |-> "none", arg |-> "", result |-> FALSE, before |-> {}]
NoCall == [op |-> "none", arg |-> "", title |-> <<>>, other |-> <<>>, result |-> FALSE,
           before |-> {}, prev |-> NoPrev]
\* broadcast_articles, line 630: time.sleep(0.5) has been called.
SleepCall == [NoCall EXCEPT !.op = "sleep"]
\* What a call record keeps of the call before it.
AsPrev(c) == [op |-> c.op, arg |-> c.arg, result |-> c.result, before |-> c.before]
EmptyStore == [k \in {} |-> 0]

\* sent_news.json as earlier runs may have left it.
InitialStores ==
    { EmptyStore,
      [k \in {"u2"} |-> [title |-> <<"c">>, sent_at |-> IsoFormat(-27)]] }

\* The commands thread and the transport after __init__, with the registry
\* loaded from one of the files regs.
InitCmdSide(regs) ==
    /\ subscribersFile \in regs
    /\ subscribers = LoadSubscribers(subscribersFile)
    /\ botStateFile = 0
    /\ last_update_id = LoadBotState(botStateFile)
    /\ inbox = <<>>
    /\ \E st \in IdStreams : nextUpdateId = st[1] /\ idStep = st[2]
    /\ updates = <<>>
    /\ cmdPc = "poll"
    /\ lastReply = NoReply
    /\ issued = {}
    /\ applied = {}
    /\ consumed = {}
    /\ lastText = [c \in Chats |-> "none"]
    /\ replay = NoUpdate
    /\ preReplay = [subs |-> {}, last |-> "none"]
    /\ redelivered = 0

\* The main thread after __init__, with the history loaded from one of
\* stores, picked up at one of iterations.
InitPollSide(stores, iterations) ==
    /\ sentNewsFile \in stores
    /\ sent_news = LoadSentNews(sentNewsFile)
    /\ now = 0
    /\ iteration \in iterations
    /\ cycles = 0
    /\ pollPc = "fetch"
    /\ articles = <<>>
    /\ duplicates_count = 0
    /\ recipients = <<>>
    /\ bi = 0
    /\ si = 0
    /\ batchLog = <<>>
    /\ failures = FALSE
    /\ handed = EmptyStore
    /\ batches = 0

\* A history whose one record is CleanupDays old.
AgedStore == [k \in {"u2"} |-> [title |-> <<"c">>, sent_at |-> IsoFormat(0 - CleanupDays)]]

AllRegistries == {SetToSeq(S) : S \in SUBSET Chats}

\* ------------------------------------------------------------ environment
\* A user sends a command: the transport queues it under the next id.
UserSendsOf(texts, max) ==
    /\ Cardinality(issued) < max
    /\ \E c \in Chats, t \in texts :
         LET u == [update_id |-> nextUpdateId, chat_id |-> c, text |-> t] IN
         /\ inbox' = Append(inbox, u)
         /\ nextUpdateId' = nextUpdateId + idStep
         /\ issued' = issued \cup {u}
    /\ UNCHANGED <<subscribers, subscribersFile, last_update_id, botStateFile,
                   idStep, updates, cmdPc, lastReply>>
    /\ UNCHANGED <<applied, consumed, lastText, replay, preReplay, redelivered>>
    /\ UNCHANGED <<pollSide, crashes, sigVars, call>>

UserSends == UserSendsOf(Texts, MaxCmds)

UserSendsReplay == UserSendsOf(Texts, MaxReplayCmds)

\* Only the commands that change the registry, and fewer of them.
UserSendsMutator == UserSendsOf({"/start", "/stop"}, MaxConcCmds)

\* ------------------------------------------------------- process_updates
\* Finishing one update of the batch: the for loop moves on, or the round
\* ends and check_commands_loop calls process_updates again.
Finish(u) ==
    /\ updates' = Tail(updates)
    /\ cmdPc' = IF Tail(updates) = <<>> THEN "poll" ELSE "advance"
    /\ consumed' = consumed \cup {u}
    /\ lastText' = IF u.text \in {"/start", "/stop"}
                   THEN [lastText EXCEPT ![u.chat_id] = u.text]
                   ELSE lastText
    /\ applied' = IF u.text \in {"/start", "/stop"}
                  THEN applied \cup {u.update_id} ELSE applied

\* get_updates answered by the transport: every pending update from the
\* offset on; the transport forgets the ones below it.  An empty or failed
\* answer leaves everything as it is.  check_commands_loop starts a round
\* only while self.running (line 693).
GetUpdates ==
    /\ cmdPc = "poll"
    /\ running
    /\ Pending(inbox, GetUpdatesOffset(last_update_id)) # <<>>
    /\ updates' = Pending(inbox, GetUpdatesOffset(last_update_id))
    /\ inbox' = Pending(inbox, GetUpdatesOffset(last_update_id))
    /\ cmdPc' = "advance"
    /\ replay' = NoUpdate
    /\ UNCHANGED <<subscribers, subscribersFile, last_update_id, botStateFile,
                   nextUpdateId, idStep, lastReply>>
    /\ UNCHANGED <<issued, applied, consumed, lastText, preReplay, redelivered>>
    /\ UNCHANGED <<pollSide, crashes, sigVars, call>>

\* The transport answers with an update it has handed out before (an
\* at-least-once stream): the batch is that update alone.
GetUpdatesRedelivered ==
    /\ cmdPc = "poll"
    /\ running
    /\ redelivered < MaxRedeliver
    /\ \E u \in consumed :
         /\ updates' = <<u>>
         /\ replay' = u
         /\ preReplay' = [subs |-> subscribers, last |-> lastText[u.chat_id]]
    /\ redelivered' = redelivered + 1
    /\ cmdPc' = "advance"
    /\ UNCHANGED <<subscribers, subscribersFile, last_update_id, botStateFile,
                   inbox, nextUpdateId, idStep, lastReply>>
    /\ UNCHANGED <<issued, applied, consumed, lastText>>
    /\ UNCHANGED <<pollSide, crashes, sigVars, call>>

\* Lines 637-638: last_update_id = update_id; _save_bot_state().
Advance ==
    /\ cmdPc = "advance"
    /\ last_update_id' = AdvanceOffset(last_update_id, Head(updates))
    /\ botStateFile' = SaveBotState(last_update_id')
    /\ cmdPc' = "handle"
    /\ UNCHANGED <<subscribers, subscribersFile, inbox, nextUpdateId, idStep, updates, lastReply>>
    /\ UNCHANGED <<cmdHist, pollSide, crashes, sigVars, call>>

\* process_updates, lines 670-675: the reply to /status tells whether chat_id
\* is in get_subscribers().
StatusReplyAlwaysSubscribed(subs, chat_id) == [to |-> chat_id, kind |-> "status subscribed"]
StatusReply(subs, chat_id) ==
    Reply(chat_id, IF chat_id \in Range(GetSubscribers(subs))
                   THEN "status subscribed" ELSE "status not subscribed")

\* Lines 640-675 up to the registry's save: the branch on the text and the
\* in-memory mutation.  A branch that does not mutate replies and is done.
Handle ==
    /\ cmdPc = "handle"
    /\ LET u == Head(updates)
           r == IF u.text = "/start" THEN AddSubscriber(subscribers, u.chat_id)
                ELSE RemoveSubscriber(subscribers, u.chat_id)
       IN
       CASE u.text \in {"/start", "/stop"} ->
              IF r.changed
              THEN /\ subscribers' = r.subs
                   /\ cmdPc' = "save"
                   /\ UNCHANGED <<updates, lastReply, consumed, lastText, applied>>
              ELSE /\ lastReply' = Reply(u.chat_id,
                          IF u.text = "/start" THEN "already subscribed"
                          ELSE "not subscribed")
                   /\ Finish(u)
                   /\ UNCHANGED subscribers
         [] u.text = "/status" ->
              /\ lastReply' = StatusReply(subscribers, u.chat_id)
              /\ Finish(u)
              /\ UNCHANGED subscribers
         [] OTHER ->
              /\ Finish(u)
              /\ UNCHANGED <<subscribers, lastReply>>
    /\ UNCHANGED <<subscribersFile, last_update_id, botStateFile, inbox, nextUpdateId, idStep>>
    /\ UNCHANGED <<issued, replay, preReplay, redelivered>>
    /\ UNCHANGED <<pollSide, crashes, sigVars, call>>

\* save_subscribers inside add_subscriber / remove_subscriber, then the
\* reply of the branch that mutated.
SaveRegistry ==
    /\ cmdPc = "save"
    /\ LET u == Head(updates) IN
       /\ subscribersFile' = SaveSubscribers(subscribers, subscribersFile)
       /\ lastReply' = Reply(u.chat_id,
             IF u.text = "/start" THEN "subscribed" ELSE "unsubscribed")
       /\ Finish(u)
    /\ UNCHANGED <<subscribers, last_update_id, botStateFile, inbox, nextUpdateId, idStep>>
    /\ UNCHANGED <<issued, replay, preReplay, redelivered>>
    /\ UNCHANGED <<pollSide, crashes, sigVars, call>>

\* ------------------------------------------------ run, check_and_send_news
Mark(i) == [ev |-> "mark", to |-> "", msg |-> "", item |-> i]
Sent(chat_id, kind, i) == [ev |-> "send", to |-> chat_id, msg |-> kind, item |-> i]

\* The marks of this broadcast join the record of earlier broadcasts.
HandedAfter ==
    LET marked == {articles[batchLog[j].item].url :
                      j \in {k \in DOMAIN batchLog : batchLog[k].ev = "mark"}}
    IN [u \in DOMAIN handed \cup marked |-> IF u \in marked THEN now ELSE handed[u]]

\* run, lines 730-735, and check_and_send_news up to line 706: the iteration
\* is counted, get_recent_news asks every query and keeps what is_duplicate
\* lets through; with nothing new check_and_send_news returns.
FetchWithin(maxCycles, maxBatches, maxAnswers) ==
    /\ pollPc = "fetch"
    /\ cycles < maxCycles
    /\ cycles' = cycles + 1
    /\ iteration' = iteration + 1
    /\ \E answers \in [1..NumQueries -> SourceAnswers] :
         /\ (batches >= maxBatches) => \A q \in 1..NumQueries : answers[q] = <<>>
         /\ Cardinality({q \in 1..NumQueries : answers[q] # <<>>}) <= maxAnswers
         /\ articles' = GetRecentNews(sent_news, now, answers, 1)
         /\ duplicates_count' = Found(answers, 1) - Len(articles')
         /\ batches' = IF \E q \in 1..NumQueries : answers[q] # <<>>
                       THEN batches + 1 ELSE batches
    /\ pollPc' = IF articles' = <<>> THEN "cleanup" ELSE "translate"
    /\ UNCHANGED <<sent_news, sentNewsFile, now, recipients, bi, si>>
    /\ UNCHANGED <<batchLog, failures, handed>>
    /\ UNCHANGED <<cmdSide, crashes, sigVars, call>>

Fetch == FetchWithin(MaxCycles, MaxBatches, NumQueries)

\* Fewer cycles, and fewer queries that find something.
FetchOnce == FetchWithin(MaxConcCycles, MaxConcCycles, MaxConcAnswers)

\* Some cycles, of which the first ones find something.
FetchSome == FetchWithin(MaxSignalCycles, MaxConcCycles, MaxConcAnswers)

\* check_and_send_news, line 709: each article's title is translated; the
\* service answers or fails per article.
Translate ==
    /\ pollPc = "translate"
    /\ \E answered \in [DOMAIN articles -> BOOLEAN] :
         articles' = [i \in DOMAIN articles |-> TranslateArticle(articles[i], answered[i])]
    /\ pollPc' = "broadcast"
    /\ UNCHANGED <<sent_news, sentNewsFile, now, iteration, duplicates_count, recipients, bi, si>>
    /\ UNCHANGED <<pollHist, cmdSide, crashes, sigVars, call>>

\* broadcast_articles, lines 606-615: the subscriber list is snapshotted;
\* without subscribers or articles the broadcast returns.
BroadcastEnter ==
    /\ pollPc = "broadcast"
    /\ recipients' = GetSubscribers(subscribers)
    /\ IF BroadcastProceeds(recipients', articles)
       THEN pollPc' = "mark" /\ bi' = 1
       ELSE pollPc' = "cleanup" /\ bi' = 0
    /\ batchLog' = <<>>
    /\ failures' = FALSE
    /\ UNCHANGED <<sent_news, sentNewsFile, now, iteration, articles, duplicates_count, si>>
    /\ UNCHANGED <<handed, batches, cycles>>
    /\ UNCHANGED <<cmdSide, crashes, sigVars, call>>

\* mark_as_sent, lines 237-240: the record of article bi is set in memory.
MarkInMemory ==
    /\ pollPc = "mark"
    /\ sent_news' = MarkAsSent(sent_news, now, articles[bi].url, articles[bi].title_uk)
    /\ pollPc' = "marksave"
    /\ UNCHANGED <<sentNewsFile, now, iteration, articles, duplicates_count, recipients, bi, si>>
    /\ UNCHANGED <<pollHist, cmdSide, crashes, sigVars, call>>

\* mark_as_sent, line 241: save_sent_news; then the loop of lines 618-622
\* goes on or the sending starts.
MarkSave ==
    /\ pollPc = "marksave"
    /\ sentNewsFile' = SaveSentNews(sent_news, sentNewsFile)
    /\ batchLog' = Append(batchLog, Mark(bi))
    /\ LET next == AfterMark(bi, Len(articles)) IN
       /\ pollPc' = next.pc
       /\ bi' = next.i
       /\ si' = IF next.pc = "send" THEN 1 ELSE si
    /\ UNCHANGED <<sent_news, now, iteration, articles, duplicates_count, recipients>>
    /\ UNCHANGED <<failures, handed, batches, cycles>>
    /\ UNCHANGED <<cmdSide, crashes, sigVars, call>>

\* broadcast_articles, lines 625-631: one send_message, which succeeds or
\* fails (send_message returns False, nothing is raised), with the
\* time.sleep(0.5) of line 630 if one follows it: call tells whether one did.
\* After the last send broadcast_articles and check_and_send_news return.
\* With interrupted, a KeyboardInterrupt is raised while format_article is
\* inside its try (lines 587-591, entered for every article that carries a
\* publishedAt, as the source's articles do): the bare except swallows it,
\* the message is formatted and sent as usual.
SendOf(interrupted) ==
    /\ pollPc = "send"
    /\ interrupted => signals < MaxSignals /\ MessageKind(bi, Len(articles)) = "item"
    /\ signals' = IF interrupted THEN signals + 1 ELSE signals
    /\ UNCHANGED running
    /\ \E ok \in BOOLEAN :
         LET next == AfterSend(si, bi, ok, Len(recipients), Len(articles)) IN
         /\ batchLog' = Append(batchLog,
                Sent(Recipient(recipients, subscribers, si),
                     MessageKind(bi, Len(articles)), bi))
         /\ failures' = (failures \/ ~ok)
         /\ pollPc' = next.pc
         /\ si' = next.s
         /\ bi' = next.m
         /\ handed' = IF next.pc = "cleanup" THEN HandedAfter ELSE handed
    /\ call' = IF SleepsAfter(MessageKind(bi, Len(articles))) THEN SleepCall ELSE NoCall
    /\ UNCHANGED <<sent_news, sentNewsFile, now, iteration, articles, duplicates_count, recipients>>
    /\ UNCHANGED <<batches, cycles>>
    /\ UNCHANGED <<cmdSide, crashes>>

Send == SendOf(FALSE)

SendInterrupted == SendOf(TRUE)

\* run, lines 744-746: a KeyboardInterrupt raised in the main thread anywhere
\* else inside run's try reaches its handler: running is cleared, run returns.
Interrupt ==
    /\ pollPc \notin {"stopped", "raised"}
    /\ signals < MaxSignals
    /\ signals' = signals + 1
    /\ running' = FALSE
    /\ pollPc' = "stopped"
    /\ UNCHANGED <<sent_news, sentNewsFile, now, iteration, articles, duplicates_count,
                   recipients, bi, si>>
    /\ UNCHANGED <<pollHist, cmdSide, crashes, call>>

\* main, lines 757-758: run has returned, the process exits and takes the
\* commands thread, a daemon (line 724), with it.
Exit ==
    /\ pollPc = "stopped"
    /\ cmdPc # "exited"
    /\ cmdPc' = "exited"
    /\ UNCHANGED <<subscribers, subscribersFile, last_update_id, botStateFile,
                   inbox, nextUpdateId, idStep, updates, lastReply>>
    /\ UNCHANGED <<cmdHist, pollSide, crashes, call, sigVars>>

\* run, lines 738-739: every 24th iteration cleanup_old_entries(days=30)
\* filters the records in memory (lines 245-253).  An exception it raises is
\* caught nowhere (run catches KeyboardInterrupt only, main nothing): run
\* ends, and the process with it.
Cleanup ==
    /\ pollPc = "cleanup"
    /\ IF iteration % CleanupEvery = 0
       THEN IF CleanupRaises(sent_news)
            THEN /\ pollPc' = "raised"
                 /\ UNCHANGED sent_news
            ELSE /\ sent_news' = CleanupOldEntries(sent_news, now, CleanupDays)
                 /\ pollPc' = IF CleanupSaves(CleanupRemoved(sent_news, now, CleanupDays))
                              THEN "cleansave" ELSE "sleep"
       ELSE /\ pollPc' = "sleep"
            /\ UNCHANGED sent_news
    /\ UNCHANGED <<sentNewsFile, now, iteration, articles, duplicates_count, recipients, bi, si>>
    /\ UNCHANGED <<pollHist, cmdSide, crashes, sigVars, call>>

\* cleanup_old_entries, lines 254-256: something was removed, so it saves.
CleanupSave ==
    /\ pollPc = "cleansave"
    /\ sentNewsFile' = SaveSentNews(sent_news, sentNewsFile)
    /\ pollPc' = "sleep"
    /\ UNCHANGED <<sent_news, now, iteration, articles, duplicates_count, recipients, bi, si>>
    /\ UNCHANGED <<pollHist, cmdSide, crashes, sigVars, call>>

\* run, line 742: time.sleep(CHECK_INTERVAL_MINUTES * 60); the clock moves.
Sleep ==
    /\ pollPc = "sleep"
    /\ \E d \in DaySteps : now + d <= MaxDay /\ now' = now + d
    /\ pollPc' = "fetch"
    /\ articles' = <<>>
    /\ duplicates_count' = 0
    /\ recipients' = <<>>
    /\ bi' = 0
    /\ si' = 0
    /\ batchLog' = <<>>
    /\ failures' = FALSE
    /\ UNCHANGED <<sent_news, sentNewsFile, iteration>>
    /\ UNCHANGED <<handed, batches, cycles>>
    /\ UNCHANGED <<cmdSide, crashes, sigVars, call>>

\* ------------------------------------------------------------------ crash
\* The process dies and is started again: __init__ loads the three files,
\* run starts both loops afresh.
Crash ==
    /\ crashes < MaxCrashes
    /\ crashes' = crashes + 1
    /\ subscribers' = LoadSubscribers(subscribersFile)
    /\ last_update_id' = LoadBotState(botStateFile)
    /\ updates' = <<>>
    /\ cmdPc' = "poll"
    /\ lastReply' = NoReply
    /\ replay' = NoUpdate
    /\ sent_news' = LoadSentNews(sentNewsFile)
    /\ iteration' = 0
    /\ pollPc' = "fetch"
    /\ articles' = <<>>
    /\ duplicates_count' = 0
    /\ recipients' = <<>>
    /\ bi' = 0
    /\ si' = 0
    /\ batchLog' = <<>>
    /\ failures' = FALSE
    /\ handed' = HandedAfter
    /\ UNCHANGED <<subscribersFile, botStateFile, inbox, nextUpdateId, idStep>>
    /\ UNCHANGED <<issued, applied, consumed, lastText, preReplay, redelivered>>
    /\ running' = TRUE
    /\ UNCHANGED <<sentNewsFile, now, batches, cycles, call, signals>>

\* --------------------------------------------------------- specifications
\* The commands thread alone, with a transport that honours the offset.
Init ==
    /\ InitCmdSide(AllRegistries)
    /\ InitPollSide({EmptyStore}, {0})
    /\ crashes = 0
    /\ running = TRUE
    /\ signals = 0
    /\ call = NoCall

Next ==
    \/ UserSends
    \/ GetUpdates
    \/ Advance
    \/ Handle
    \/ SaveRegistry
    \/ Crash

Spec == Init /\ [][Next]_vars

\* The commands thread started over an empty registry.
InitCommands == Init /\ subscribersFile = <<>>

SpecCommands == InitCommands /\ [][Next]_vars

\* SubscriberManager alone: add_subscriber and remove_subscriber called
\* directly, in any order, with any id (str(...) of a missing chat id is ""),
\* over every registry.
RegistryIds == Chats \cup {""}

AddCall ==
    /\ \E chat_id \in RegistryIds :
         LET r == AddSubscriber(subscribers, chat_id) IN
         /\ subscribers' = r.subs
         /\ subscribersFile' = IF r.changed
                               THEN SaveSubscribers(r.subs, subscribersFile)
                               ELSE subscribersFile
         /\ call' = [op |-> "add", arg |-> chat_id, title |-> <<>>, other |-> <<>>,
                     result |-> r.changed,
                     before |-> subscribers, prev |-> AsPrev(call)]
    /\ UNCHANGED <<last_update_id, botStateFile, inbox, nextUpdateId, idStep, updates,
                   cmdPc, lastReply>>
    /\ UNCHANGED <<cmdHist, pollSide, crashes, sigVars>>

RemoveCall ==
    /\ \E chat_id \in RegistryIds :
         LET r == RemoveSubscriber(subscribers, chat_id) IN
         /\ subscribers' = r.subs
         /\ subscribersFile' = IF r.changed
                               THEN SaveSubscribers(r.subs, subscribersFile)
                               ELSE subscribersFile
         /\ call' = [op |-> "remove", arg |-> chat_id, title |-> <<>>, other |-> <<>>,
                     result |-> r.changed,
                     before |-> subscribers, prev |-> AsPrev(call)]
    /\ UNCHANGED <<last_update_id, botStateFile, inbox, nextUpdateId, idStep, updates,
                   cmdPc, lastReply>>
    /\ UNCHANGED <<cmdHist, pollSide, crashes, sigVars>>

InitRegistry ==
    /\ InitCmdSide({SetToSeq(S) : S \in SUBSET RegistryIds})
    /\ idStep = 1
    /\ InitPollSide({EmptyStore}, {0})
    /\ crashes = 0
    /\ running = TRUE
    /\ signals = 0
    /\ call = NoCall

NextRegistry ==
    \/ AddCall
    \/ RemoveCall

SpecRegistry == InitRegistry /\ [][NextRegistry]_vars

\* SubscriberManager alone, with saves that may fail: add_subscriber and
\* remove_subscriber called directly, each save succeeding or not.
AddCallMayFail ==
    /\ \E chat_id \in RegistryIds, ok \in BOOLEAN :
         LET r == AddSubscriber(subscribers, chat_id) IN
         /\ subscribers' = r.subs
         /\ IF r.changed
            THEN subscribersFile' \in SaveSubscribersMayFail(r.subs, subscribersFile, ok)
            ELSE subscribersFile' = subscribersFile
         /\ call' = [op |-> "add", arg |-> chat_id, title |-> <<>>, other |-> <<>>,
                     result |-> r.changed, before |-> subscribers, prev |-> NoPrev,
                     saved |-> r.changed /\ ok, fileBefore |-> subscribersFile]
    /\ UNCHANGED <<last_update_id, botStateFile, inbox, nextUpdateId, idStep, updates,
                   cmdPc, lastReply>>
    /\ UNCHANGED <<cmdHist, pollSide, crashes, sigVars>>

RemoveCallMayFail ==
    /\ \E chat_id \in RegistryIds, ok \in BOOLEAN :
         LET r == RemoveSubscriber(subscribers, chat_id) IN
         /\ subscribers' = r.subs
         /\ IF r.changed
            THEN subscribersFile' \in SaveSubscribersMayFail(r.subs, subscribersFile, ok)
            ELSE subscribersFile' = subscribersFile
         /\ call' = [op |-> "remove", arg |-> chat_id, title |-> <<>>, other |-> <<>>,
                     result |-> r.changed, before |-> subscribers, prev |-> NoPrev,
                     saved |-> r.changed /\ ok, fileBefore |-> subscribersFile]
    /\ UNCHANGED <<last_update_id, botStateFile, inbox, nextUpdateId, idStep, updates,
                   cmdPc, lastReply>>
    /\ UNCHANGED <<cmdHist, pollSide, crashes, sigVars>>

NextSaveFail ==
    \/ AddCallMayFail
    \/ RemoveCallMayFail

SpecSaveFail == InitRegistry /\ [][NextSaveFail]_vars

\* SentNewsTracker alone: is_duplicate and mark_as_sent called directly, at a
\* day of DedupDays, over every history of up to two records delivered at day
\* 0 or with an unusable sent_at; and the title comparison of is_duplicate
\* alone, over every pair of DedupTitles.
DedupUrls == {"u1", "u2"}
DedupDays == {0, 2, 3, 6, 7}
DedupRecords == [title : StoredTitles, sent_at : {IsoFormat(0), Malformed, Missing}]
DedupStores == UNION {[D -> DedupRecords] : D \in SUBSET DedupUrls}

IsDuplicateCall ==
    /\ \E url \in DedupUrls, title \in CheckedTitles :
         call' = [op |-> "is_duplicate", arg |-> url, title |-> title, other |-> <<>>,
                  result |-> IsDuplicate(sent_news, now, url, title),
                  before |-> sent_news, prev |-> NoPrev]
    /\ UNCHANGED <<cmdSide, pollSide, crashes, sigVars>>

SimilarityCall ==
    /\ \E title \in DedupTitles, existing \in DedupTitles :
         call' = [op |-> "similarity", arg |-> "", title |-> title, other |-> existing,
                  result |-> TitleSimilarity(title, existing),
                  before |-> sent_news, prev |-> NoPrev]
    /\ UNCHANGED <<cmdSide, pollSide, crashes, sigVars>>

MarkCall ==
    /\ \E url \in DedupUrls, title \in StoredTitles :
         /\ sent_news' = MarkAsSent(sent_news, now, url, title)
         /\ sentNewsFile' = SaveSentNews(sent_news', sentNewsFile)
         /\ call' = [op |-> "mark_as_sent", arg |-> url, title |-> title, other |-> <<>>,
                     result |-> FALSE, before |-> sent_news, prev |-> NoPrev]
    /\ UNCHANGED <<now, iteration, pollPc, articles, duplicates_count, recipients, bi, si>>
    /\ UNCHANGED <<cmdSide, pollHist, crashes, sigVars>>

InitDedupOver(stores, days) ==
    /\ InitCmdSide({<<>>})
    /\ idStep = 1
    /\ sentNewsFile \in stores
    /\ sent_news = LoadSentNews(sentNewsFile)
    /\ now \in days
    /\ iteration = 0
    /\ cycles = 0
    /\ pollPc = "fetch"
    /\ articles = <<>>
    /\ duplicates_count = 0
    /\ recipients = <<>>
    /\ bi = 0
    /\ si = 0
    /\ batchLog = <<>>
    /\ failures = FALSE
    /\ handed = EmptyStore
    /\ batches = 0
    /\ crashes = 0
    /\ running = TRUE
    /\ signals = 0
    /\ call = NoCall

InitDedup == InitDedupOver(DedupStores, DedupDays)

NextDedup ==
    \/ IsDuplicateCall
    \/ MarkCall

SpecDedup == InitDedup /\ [][NextDedup]_vars

InitSimilarity == InitDedupOver({EmptyStore}, {0})

NextSimilarity == SimilarityCall

SpecSimilarity == InitSimilarity /\ [][NextSimilarity]_vars

\* SentNewsTracker alone: cleanup_old_entries called directly with a horizon
\* of SweepHorizons, at the day SweepToday, over every history of up to two
\* records whose age is one of SweepAges or whose sent_at is unusable.
SweepToday == {CleanupDays + 1}
SweepAges == {0, 1, 2, 3, 6, 7, CleanupDays - 1, CleanupDays, CleanupDays + 1}
SweepHorizons == {0, CleanupDays}
SweepTitles == {TitleX, TitleABC}
SweepStamps == {IsoFormat(t - a) : t \in SweepToday, a \in SweepAges} \cup {Malformed}
SweepStores == UNION {[D -> [title : SweepTitles, sent_at : SweepStamps]] : D \in SUBSET DedupUrls}

\* One call of cleanup_old_entries(days), its save included.
CleanupCall ==
    /\ \E days \in SweepHorizons :
         IF CleanupRaises(sent_news)
         THEN /\ call' = [op |-> "cleanup_old_entries", arg |-> "", title |-> <<>>,
                          other |-> <<>>, result |-> NoneValue, before |-> sent_news,
                          prev |-> NoPrev, days |-> days, removed |-> 0, saved |-> FALSE,
                          raised |-> TRUE]
              /\ UNCHANGED <<sent_news, sentNewsFile>>
         ELSE LET removed == CleanupRemoved(sent_news, now, days) IN
              /\ sent_news' = CleanupOldEntries(sent_news, now, days)
              /\ sentNewsFile' = IF CleanupSaves(removed)
                                 THEN SaveSentNews(sent_news', sentNewsFile)
                                 ELSE sentNewsFile
              /\ call' = [op |-> "cleanup_old_entries", arg |-> "", title |-> <<>>,
                          other |-> <<>>, result |-> CleanupReturn(removed),
                          before |-> sent_news, prev |-> NoPrev, days |-> days,
                          removed |-> removed, saved |-> CleanupSaves(removed),
                          raised |-> FALSE]
    /\ UNCHANGED <<now, iteration, pollPc, articles, duplicates_count, recipients, bi, si>>
    /\ UNCHANGED <<cmdSide, pollHist, crashes, sigVars>>

InitSweep == InitDedupOver(SweepStores, SweepToday)

NextSweep == CleanupCall

SpecSweep == InitSweep /\ [][NextSweep]_vars

\* The commands thread with a transport that may hand an update out again.
NextReplay ==
    \/ UserSendsReplay
    \/ GetUpdates
    \/ GetUpdatesRedelivered
    \/ Advance
    \/ Handle
    \/ SaveRegistry
    \/ Crash

SpecReplay == Init /\ [][NextReplay]_vars

\* The main thread alone, over a registry of 0, 1 or 2 subscribers that does
\* not change.
PollRegistries == {SetToSeq(S) : S \in {{}, {"42"}, Chats}}

InitPoll ==
    /\ InitCmdSide(PollRegistries)
    /\ idStep = 1
    /\ InitPollSide(InitialStores, StartIterations)
    /\ crashes = 0
    /\ running = TRUE
    /\ signals = 0
    /\ call = NoCall

NextPoll ==
    \/ Fetch
    \/ Translate
    \/ BroadcastEnter
    \/ MarkInMemory
    \/ MarkSave
    \/ Send
    \/ Cleanup
    \/ CleanupSave
    \/ Sleep
    \/ Crash

SpecPoll == InitPoll /\ [][NextPoll]_vars

\* The main thread over a history that holds a record with an unusable
\* sent_at, two cycles before the next cleanup.
CorruptStores ==
    {[k \in {"u2"} |-> [title |-> <<"c">>, sent_at |-> stamp]] : stamp \in {Malformed, Missing}}

InitCorrupt ==
    /\ InitCmdSide(PollRegistries)
    /\ idStep = 1
    /\ InitPollSide(CorruptStores, {CleanupEvery - 2})
    /\ crashes = 0
    /\ running = TRUE
    /\ signals = 0
    /\ call = NoCall

NextCorrupt ==
    \/ Fetch
    \/ Translate
    \/ BroadcastEnter
    \/ MarkInMemory
    \/ MarkSave
    \/ Send
    \/ Cleanup
    \/ Sleep

SpecCorrupt == InitCorrupt /\ [][NextCorrupt]_vars

\* broadcast_articles alone, called with every batch of up to MaxItems
\* translated articles, over every registry and history.
HarnessArticles == {TranslateArticle([url |-> a.url, title |-> a.title, lang |-> "en"], TRUE) :
                       a \in SourceArticles}

RECURSIVE ListsUpTo(_, _)
ListsUpTo(S, n) ==
    IF n = 0 THEN {<<>>}
    ELSE LET shorter == ListsUpTo(S, n - 1)
         IN shorter \cup {Append(l, x) : l \in shorter, x \in S}

InitBroadcast ==
    /\ InitCmdSide(AllRegistries)
    /\ idStep = 1
    /\ sentNewsFile \in InitialStores
    /\ sent_news = LoadSentNews(sentNewsFile)
    /\ now = 0
    /\ iteration = 1
    /\ cycles = 1
    /\ pollPc = "broadcast"
    /\ articles \in ListsUpTo(HarnessArticles, MaxItems)
    /\ duplicates_count = 0
    /\ recipients = <<>>
    /\ bi = 0
    /\ si = 0
    /\ batchLog = <<>>
    /\ failures = FALSE
    /\ handed = EmptyStore
    /\ batches = 1
    /\ crashes = 0
    /\ running = TRUE
    /\ signals = 0
    /\ call = NoCall

NextBroadcast ==
    \/ BroadcastEnter
    \/ MarkInMemory
    \/ MarkSave
    \/ Send

SpecBroadcast == InitBroadcast /\ [][NextBroadcast]_vars

\* Both threads side by side, from a registry of one subscriber and a history
\* whose one record the next cleanup removes.
InitConc ==
    /\ InitCmdSide({SetToSeq({"42"})})
    /\ idStep = 1
    /\ InitPollSide({AgedStore}, {CleanupEvery - MaxConcCycles})
    /\ crashes = 0
    /\ running = TRUE
    /\ signals = 0
    /\ call = NoCall

NextConc ==
    \/ UserSendsMutator
    \/ GetUpdates
    \/ Advance
    \/ Handle
    \/ SaveRegistry
    \/ FetchOnce
    \/ Translate
    \/ BroadcastEnter
    \/ MarkInMemory
    \/ MarkSave
    \/ Send
    \/ Cleanup
    \/ CleanupSave
    \/ Sleep

SpecConc == InitConc /\ [][NextConc]_vars

\* Both threads side by side, with a KeyboardInterrupt raised in the main
\* thread at some point of run.
NextShutdown ==
    \/ UserSendsMutator
    \/ GetUpdates
    \/ Advance
    \/ Handle
    \/ SaveRegistry
    \/ FetchSome
    \/ Translate
    \/ BroadcastEnter
    \/ MarkInMemory
    \/ MarkSave
    \/ Send
    \/ SendInterrupted
    \/ Cleanup
    \/ CleanupSave
    \/ Sleep
    \/ Interrupt
    \/ Exit

SpecShutdown == InitConc /\ [][NextShutdown]_vars

\* ================================================================= claims
Mutators == {"/start", "/stop"}
Ids(S) == {u.update_id : u \in S}
SendsOf(log) == {k \in DOMAIN log : log[k].ev = "send"}
MarksOf(log) == {k \in DOMAIN log : log[k].ev = "mark"}

\* C1 (as the claim states it): no /start or /stop is lost for good.  Whenever
\* the commands thread is about to ask the transport for updates, every
\* /start or /stop the persisted offset has reached has had its registry
\* mutation applied (the transport hands out nothing at or below the offset,
\* so such a command is never fetched again).
C1_NoCommandLost ==
    cmdPc = "poll" =>
        \A u \in issued :
            (u.text \in Mutators /\ botStateFile >= u.update_id) => u.update_id \in applied

\* C2: an item that a broadcast has marked delivered is not among the
\* survivors a later poll cycle selects and hands to broadcast_articles while
\* fewer than 7 days have passed since the mark, whatever the sends of the
\* first broadcast did and across a restart.
C2_NoRedelivery ==
    pollPc \in {"translate", "broadcast", "mark", "marksave", "send"} =>
        \A i \in DOMAIN articles :
            articles[i].url \in DOMAIN handed =>
                now - handed[articles[i].url] >= ExactHorizonDays

\* C2's case: after a restart, a cycle in which the source returned articles
\* again; some were dropped as duplicates while u1, marked by an earlier
\* broadcast, is still within the 7 days, and the others go on to broadcast.
C2_Witness ==
    /\ pollPc = "translate"
    /\ crashes = 1
    /\ duplicates_count > 0
    /\ "u1" \in DOMAIN handed
    /\ now - handed["u1"] < ExactHorizonDays
    /\ now - handed["u1"] >= FuzzyHorizonDays

\* similarity >= 0.85 of two titles, normalised as is_duplicate does.
NearDuplicates(t1, t2) ==
    LET r == Similarity(Strip(Lower(t1)), Strip(Lower(t2)))
    IN r[1] * 100 >= SimilarityPercent * r[2]

\* C3 (as the claim states it): the survivors of one poll cycle never hold
\* two items with the same url, nor two items with near-duplicate titles.
C3_NoDuplicatesInBatch ==
    \A i, j \in DOMAIN articles :
        i < j => /\ articles[i].url # articles[j].url
                 /\ ~NearDuplicates(articles[i].title, articles[j].title)

\* C4: in a broadcast, once any send has happened every article of the batch
\* has been marked (mark_as_sent returned) before the first send, and its
\* record with today's date is in sent_news.json.
C4_MarksBeforeSends ==
    SendsOf(batchLog) # {} =>
        \A i \in DOMAIN articles :
            /\ \E j \in MarksOf(batchLog) :
                  /\ batchLog[j].item = i
                  /\ \A k \in SendsOf(batchLog) : j < k
            /\ articles[i].url \in DOMAIN sentNewsFile
            /\ sentNewsFile[articles[i].url].sent_at = IsoFormat(now)

\* C4's case: the first send of a broadcast of two articles has happened.
C4_Witness ==
    /\ pollPc = "send"
    /\ Len(articles) = 2
    /\ Cardinality(SendsOf(batchLog)) = 1

\* What a complete broadcast does, by the claim: n marks, then per subscriber
\* a header, the n items in order, a completion notice.
ExpectedLog(subs, n) ==
    [k \in 1..(n + Len(subs) * (n + 2)) |->
        IF k <= n THEN [ev |-> "mark", to |-> "", msg |-> "", item |-> k]
        ELSE LET p == k - n - 1
                 m == p % (n + 2)
             IN [ev |-> "send", to |-> subs[(p \div (n + 2)) + 1],
                 msg |-> IF m = 0 THEN "header" ELSE IF m = n + 1 THEN "done" ELSE "item",
                 item |-> m]]

\* C5: when a broadcast over S >= 1 subscribers and N >= 1 articles has
\* returned, it has called mark_as_sent N times and send_message S * (N + 2)
\* times: per subscriber the header, the N articles in order and the
\* completion notice, whichever sends failed.
C5_ExactlyOncePerCycle ==
    (pollPc = "cleanup" /\ recipients # <<>> /\ articles # <<>>) =>
        /\ batchLog = ExpectedLog(recipients, Len(articles))
        /\ Cardinality(MarksOf(batchLog)) = Len(articles)
        /\ Cardinality(SendsOf(batchLog)) = Len(recipients) * (Len(articles) + 2)

\* C5's case: 2 subscribers, 3 articles, 10 sends of which some failed.
C5_Witness ==
    /\ pollPc = "cleanup"
    /\ Len(recipients) = 2
    /\ Len(articles) = 3
    /\ failures
    /\ Cardinality(SendsOf(batchLog)) = 10
    /\ Cardinality(MarksOf(batchLog)) = 3

\* C6: broadcast_articles called with no subscribers or with no articles
\* returns at once: nothing is sent or marked, sent_news and sent_news.json
\* stay as they were.
C6_EmptyBroadcastIsNoOp ==
    [][(pollPc = "broadcast" /\ (subscribers = {} \/ articles = <<>>)) =>
          /\ pollPc' = "cleanup"
          /\ batchLog' = <<>>
          /\ sent_news' = sent_news
          /\ sentNewsFile' = sentNewsFile]_vars

\* C6's case: a broadcast of articles over an empty registry has returned;
\* their urls are not in the history.
C6_Witness ==
    /\ pollPc = "cleanup"
    /\ subscribers = {}
    /\ Len(articles) = 2
    /\ batchLog = <<>>
    /\ \A i \in DOMAIN articles : articles[i].url \notin DOMAIN sentNewsFile

\* C7: whenever the commands thread is outside add/remove_subscriber,
\* subscribers.json holds the in-memory registry, which reflects the last
\* /start or /stop handled for each chat; whenever the main thread is outside
\* mark_as_sent and cleanup_old_entries, sent_news.json holds the in-memory
\* history, which holds every mark of the running broadcast.
C7_SnapshotsMatchMemory ==
    /\ cmdPc # "save" =>
          /\ LoadSubscribers(subscribersFile) = subscribers
          /\ \A c \in Chats :
                /\ lastText[c] = "/start" => c \in LoadSubscribers(subscribersFile)
                /\ lastText[c] = "/stop" => c \notin LoadSubscribers(subscribersFile)
    /\ pollPc \notin {"marksave", "cleansave"} =>
          /\ LoadSentNews(sentNewsFile) = sent_news
          /\ \A j \in MarksOf(batchLog) :
                articles[batchLog[j].item].url \in DOMAIN LoadSentNews(sentNewsFile)

\* C7's case: while a broadcast is sending, after its marks, the /stop of the
\* one subscriber has been handled; both files have changed.
C7_Witness ==
    /\ pollPc = "send"
    /\ SendsOf(batchLog) # {}
    /\ cmdPc = "poll"
    /\ lastText["42"] = "/stop"
    /\ LoadSubscribers(subscribersFile) = {}
    /\ DOMAIN LoadSentNews(sentNewsFile) = {"u1", "u2"}

\* C8 (as the claim states it): neither last_update_id nor the offset in
\* bot_state.json ever decreases.
C8_OffsetMonotone ==
    [][last_update_id' >= last_update_id /\ botStateFile' >= botStateFile]_vars

\* C9: when the handling of an update ends (whatever its text and branch),
\* bot_state.json holds that update's id; once the updates 5, 7 and 9, the
\* only ones sent so far, have been handled it holds 9.
C9_OffsetIsLastConsumed ==
    /\ [][(cmdPc \in {"handle", "save"} /\ cmdPc' \in {"poll", "advance"}
             /\ crashes' = crashes) =>
          botStateFile' = Head(updates).update_id]_vars
    /\ []((Ids(issued) = {5, 7, 9} /\ Ids(consumed) = {5, 7, 9} /\ cmdPc = "poll") =>
            botStateFile = 9)

\* C9's case: 5, 7 and 9 have been handled, one of them no command at all.
C9_Witness ==
    /\ Ids(issued) = {5, 7, 9}
    /\ Ids(consumed) = {5, 7, 9}
    /\ cmdPc = "poll"
    /\ botStateFile = 9
    /\ \E u \in consumed : u.text = "hello"
    /\ \E u \in consumed : u.text = "/stop" /\ lastReply.kind = "not subscribed"

\* C10 (as the claim states it): after a restart, handling an update again
\* that was handled before leaves the registry as it was.
C10_ReplayIsNoOp ==
    (replay # NoUpdate /\ cmdPc = "poll" /\ crashes >= 1) =>
        subscribers = preReplay.subs

\* C10, amended: after a restart, handling an update again leaves the registry
\* (in memory and in subscribers.json) as it was, provided no /start or /stop
\* of the same chat with the other text was handled after it.
C10_ReplayOfLatestIsNoOp ==
    (/\ replay # NoUpdate
     /\ cmdPc = "poll"
     /\ crashes >= 1
     /\ replay.text \in Mutators => preReplay.last = replay.text) =>
        /\ subscribers = preReplay.subs
        /\ LoadSubscribers(subscribersFile) = preReplay.subs

\* C10's case: after a restart a /start is handled a second time, another
\* update having been handled as well.
C10_Witness ==
    /\ replay # NoUpdate
    /\ cmdPc = "poll"
    /\ replay.text = "/start"
    /\ preReplay.last = "/start"
    /\ crashes = 1
    /\ Cardinality(consumed) = 2

\* The texts of the updates handled so far, in the order of their ids.
ConsumedTexts ==
    LET n == Cardinality(consumed)
        inOrder == CHOOSE f \in [1..n -> consumed] :
                      \A i, j \in 1..n : i < j => f[i].update_id < f[j].update_id
    IN [i \in 1..n |-> inOrder[i].text]

OnlyFrom(chat_id) == \A u \in consumed : u.chat_id = chat_id

\* C11: /start adds the chat and replies "subscribed" iff it was absent, else
\* replies "already subscribed" and changes nothing; /stop removes it and
\* replies "unsubscribed" iff it was present, else replies "not subscribed"
\* and changes nothing.  From an empty registry /start, /start, /stop from
\* "42" give the registries {"42"}, {"42"}, {} and the replies subscribed,
\* already subscribed, unsubscribed.
C11_CommandReplies ==
    /\ [][(/\ cmdPc = "handle"
           /\ cmdPc' = "save" \/ updates' # updates
           /\ crashes' = crashes
           /\ Head(updates).text \in Mutators) =>
          LET c == Head(updates).chat_id
              present == c \in subscribers
          IN IF Head(updates).text = "/start"
             THEN IF present
                  THEN /\ subscribers' = subscribers
                       /\ lastReply' = [to |-> c, kind |-> "already subscribed"]
                       /\ cmdPc' # "save"
                  ELSE /\ subscribers' = subscribers \cup {c}
                       /\ cmdPc' = "save"
             ELSE IF present
                  THEN /\ subscribers' = subscribers \ {c}
                       /\ cmdPc' = "save"
                  ELSE /\ subscribers' = subscribers
                       /\ lastReply' = [to |-> c, kind |-> "not subscribed"]
                       /\ cmdPc' # "save"]_vars
    /\ [][(cmdPc = "save" /\ cmdPc' # "save" /\ crashes' = crashes) =>
          /\ subscribers' = subscribers
          /\ lastReply' = [to |-> Head(updates).chat_id,
                           kind |-> IF Head(updates).text = "/start"
                                    THEN "subscribed" ELSE "unsubscribed"]]_vars
    /\ []((crashes = 0 /\ cmdPc \in {"poll", "advance"} /\ OnlyFrom("42")) =>
            /\ ConsumedTexts = <<"/start">> =>
                  subscribers = {"42"} /\ lastReply.kind = "subscribed"
            /\ ConsumedTexts = <<"/start", "/start">> =>
                  subscribers = {"42"} /\ lastReply.kind = "already subscribed"
            /\ ConsumedTexts = <<"/start", "/start", "/stop">> =>
                  subscribers = {} /\ lastReply.kind = "unsubscribed")

\* C11's case: the scenario has run to its end.
C11_Witness ==
    /\ crashes = 0
    /\ cmdPc = "poll"
    /\ OnlyFrom("42")
    /\ ConsumedTexts = <<"/start", "/start", "/stop">>
    /\ subscribers = {}
    /\ subscribersFile = <<>>
    /\ lastReply = [to |-> "42", kind |-> "unsubscribed"]

\* C12: add_subscriber(id) returns true iff id was absent, and afterwards id
\* is a member, nothing else has changed and a grown set is in
\* subscribers.json; called again at once it returns false and leaves the
\* set as it is, so that two adds in a row grow the set by one at most, and
\* by exactly one when the first added.
C12_AddIdempotent ==
    call.op = "add" =>
        /\ call.result = (call.arg \notin call.before)
        /\ subscribers = call.before \cup {call.arg}
        /\ call.result => LoadSubscribers(subscribersFile) = subscribers
        /\ (call.prev.op = "add" /\ call.prev.arg = call.arg) =>
              /\ call.result = FALSE
              /\ subscribers = call.before
              /\ Cardinality(subscribers) =
                    Cardinality(call.prev.before) + (IF call.prev.result THEN 1 ELSE 0)

\* C12's case: add("42") twice in a row over {"43"}; the first added.
C12_Witness ==
    /\ call.op = "add"
    /\ call.arg = "42"
    /\ call.prev.op = "add"
    /\ call.prev.arg = "42"
    /\ call.prev.result
    /\ call.prev.before = {"43"}
    /\ subscribers = {"42", "43"}

\* C13: remove_subscriber(id) returns true iff id was a member; afterwards
\* id is no member, the other members are as before and subscribers.json holds
\* the resulting set; removing an absent id returns false and changes neither
\* the set nor subscribers.json.
C13_RemoveExact ==
    [][call'.op = "remove" =>
          /\ call'.result = (call'.arg \in subscribers)
          /\ subscribers' = subscribers \ {call'.arg}
          /\ IF call'.result
             THEN LoadSubscribers(subscribersFile') = subscribers'
             ELSE subscribersFile' = subscribersFile /\ subscribers' = subscribers]_vars

\* C13's case: "42" was removed from {"42", "43"}, and a second remove of it
\* found it absent.
C13_Witness ==
    /\ call.op = "remove"
    /\ call.arg = "42"
    /\ ~call.result
    /\ call.prev.op = "remove"
    /\ call.prev.arg = "42"
    /\ call.prev.result
    /\ call.prev.before = {"42", "43"}
    /\ LoadSubscribers(subscribersFile) = {"43"}

\* The words of a title, lower-cased: its maximal runs of non-space
\* characters.
LowerCased(c) ==
    CASE c = "A" -> "a" [] c = "B" -> "b" [] c = "C" -> "c" [] c = "X" -> "x" [] OTHER -> c

WordSet(t) ==
    {[k \in 1..(p[2] - p[1] + 1) |-> LowerCased(t[p[1] + k - 1])] :
        p \in {q \in (1..Len(t)) \X (1..Len(t)) :
                 /\ q[1] <= q[2]
                 /\ \A k \in q[1]..q[2] : t[k] # " "
                 /\ q[1] = 1 \/ t[q[1] - 1] = " "
                 /\ q[2] = Len(t) \/ t[q[2] + 1] = " "}}

Shared(t1, t2) == Cardinality(WordSet(t1) \cap WordSet(t2))
Joint(t1, t2) == Cardinality(WordSet(t1) \cup WordSet(t2))

\* A well-formed record delivered fewer than days days before now.
Within(record, days) ==
    /\ record.sent_at.kind = "iso"
    /\ now - record.sent_at.day < days

\* C14: is_duplicate(url, title) is true for every title when the history
\* holds a record of that url delivered fewer than 7 days ago, whatever the
\* other records are.
C14_ExactMatch ==
    (/\ call.op = "is_duplicate"
     /\ call.arg \in DOMAIN call.before
     /\ Within(call.before[call.arg], ExactHorizonDays)) => call.result = TRUE

\* C14's case: u1 delivered 6 days ago, u2 with an unusable sent_at, and a
\* title that resembles no stored one.
C14_Witness ==
    /\ call.op = "is_duplicate"
    /\ call.arg = "u1"
    /\ call.title = TitleABC
    /\ now = 6
    /\ DOMAIN call.before = {"u1", "u2"}
    /\ call.before["u1"].sent_at = [kind |-> "iso", day |-> 0]
    /\ call.before["u2"].sent_at = [kind |-> "bad"]
    /\ call.result = TRUE

\* C15 (as the claim states it): is_duplicate is true whenever some record
\* delivered fewer than 3 days ago has a title of Jaccard similarity >= 0.85
\* to the given one.
C15_FuzzyMatchAtLeast ==
    (/\ call.op = "is_duplicate"
     /\ \E k \in DOMAIN call.before :
          /\ Within(call.before[k], FuzzyHorizonDays)
          /\ WordSet(call.title) # {}
          /\ Shared(call.title, call.before[k].title) * 100
                >= SimilarityPercent * Joint(call.title, call.before[k].title))
    => call.result = TRUE

\* C15, amended: is_duplicate is true whenever some record delivered fewer
\* than 3 days ago has a title of Jaccard similarity > 0.85 to the given one.
C15_FuzzyMatchAbove ==
    (/\ call.op = "is_duplicate"
     /\ \E k \in DOMAIN call.before :
          /\ Within(call.before[k], FuzzyHorizonDays)
          /\ WordSet(call.title) # {}
          /\ Shared(call.title, call.before[k].title) * 100
                > SimilarityPercent * Joint(call.title, call.before[k].title))
    => call.result = TRUE

\* C15's case: another url's record "a b c d e f" delivered 2 days ago, and
\* the title "a b c d e f g" (6 of 7 words shared).
C15_Witness ==
    /\ call.op = "is_duplicate"
    /\ call.arg = "u2"
    /\ call.title = TitleSeven
    /\ now = 2
    /\ DOMAIN call.before = {"u1"}
    /\ call.before["u1"] = [title |-> TitleSix, sent_at |-> [kind |-> "iso", day |-> 0]]
    /\ call.result = TRUE

\* The history of C16: u1, "Bank X files for bankruptcy", delivered at day 0.
BankHistory ==
    [k \in {"u1"} |-> [title |-> TitleBank, sent_at |-> [kind |-> "iso", day |-> 0]]]

\* C16 (as the claim states it): with that history, is_duplicate for u2 and
\* "Bank X files for bankruptcy protection" is true while fewer than 3 days
\* have passed and false afterwards.
C16_BankScenario ==
    (/\ call.op = "is_duplicate"
     /\ call.before = BankHistory
     /\ call.arg = "u2"
     /\ call.title = TitleBankProtection) =>
        call.result = (now < FuzzyHorizonDays)

\* C16, amended: with that history, is_duplicate for u2 and "Bank X files for
\* bankruptcy protection" is false at every day (5 of 6 words are shared); for
\* u2 and the same five words in another order and case it is true while fewer
\* than 3 days have passed and false afterwards.
C16_BankScenarioBelowThreshold ==
    (/\ call.op = "is_duplicate"
     /\ call.before = BankHistory
     /\ call.arg = "u2") =>
        /\ call.title = TitleBankProtection =>
              /\ call.result = FALSE
              /\ Shared(TitleBank, TitleBankProtection) = 5
              /\ Joint(TitleBank, TitleBankProtection) = 6
        /\ call.title = TitleBankReordered => call.result = (now < FuzzyHorizonDays)

\* C16's case: the check of the longer title 2 days after the delivery.
C16_Witness ==
    /\ call.op = "is_duplicate"
    /\ call.before = BankHistory
    /\ call.arg = "u2"
    /\ call.title = TitleBankProtection
    /\ now = 2
    /\ call.result = FALSE

\* C17: the similarity is_duplicate computes for two titles is the Jaccard
\* coefficient of their lower-cased word sets, 0 when either set is empty;
\* "a b c" against "a b d" gives 1/2, "" against "x" gives 0, and word order,
\* repetition and case do not count.
C17_Jaccard ==
    call.op = "similarity" =>
        /\ call.result[2] > 0
        /\ IF WordSet(call.title) = {} \/ WordSet(call.other) = {}
           THEN call.result[1] = 0
           ELSE call.result[1] * Joint(call.title, call.other)
                   = Shared(call.title, call.other) * call.result[2]
        /\ (call.title = TitleABC /\ call.other = TitleABD) => call.result[1] * 2 = call.result[2]
        /\ (call.title = TitleEmpty /\ call.other = TitleX) => call.result[1] = 0
        /\ (call.title = TitleMixed /\ call.other = TitleABC) => call.result[1] = call.result[2]

\* C17's case: "a b c" against "a b d".
C17_Witness ==
    /\ call.op = "similarity"
    /\ call.title = TitleABC
    /\ call.other = TitleABD
    /\ call.result = <<2, 4>>

\* C18: the verdict of is_duplicate is the verdict over the well-formed
\* records alone: a record whose sent_at is malformed or missing counts
\* neither under the url rule nor under the title rule.
C18_MalformedNeverMatches ==
    call.op = "is_duplicate" =>
        call.result =
            (\/ /\ call.arg \in DOMAIN call.before
                /\ Within(call.before[call.arg], ExactHorizonDays)
             \/ \E k \in DOMAIN call.before :
                  /\ Within(call.before[k], FuzzyHorizonDays)
                  /\ WordSet(call.title) # {}
                  /\ Shared(call.title, call.before[k].title) * 100
                        > SimilarityPercent * Joint(call.title, call.before[k].title))

\* C18's case: u1 with a malformed sent_at, u2 without one, and a check for u1
\* with u1's own title.
C18_Witness ==
    /\ call.op = "is_duplicate"
    /\ call.arg = "u1"
    /\ call.title = TitleBank
    /\ DOMAIN call.before = {"u1", "u2"}
    /\ call.before["u1"] = [title |-> TitleBank, sent_at |-> [kind |-> "bad"]]
    /\ call.before["u2"].sent_at = [kind |-> "none"]
    /\ call.result = FALSE

\* C20: mark_as_sent(url, title) leaves exactly one record for url, with that
\* title and the time of the call, replacing an earlier record of url; the
\* records of the other urls are as before, and sent_news.json holds the
\* whole resulting history.
C20_MarkOverwrites ==
    [][call'.op = "mark_as_sent" =>
          /\ DOMAIN sent_news' = DOMAIN sent_news \cup {call'.arg}
          /\ sent_news'[call'.arg] =
                [title |-> call'.title, sent_at |-> [kind |-> "iso", day |-> now]]
          /\ \A k \in DOMAIN sent_news \ {call'.arg} : sent_news'[k] = sent_news[k]
          /\ LoadSentNews(sentNewsFile') = sent_news']_vars

\* C20's case: u1 had a record with another title and an unusable sent_at, u2
\* has a record; u1 was marked again at day 3.
C20_Witness ==
    /\ call.op = "mark_as_sent"
    /\ call.arg = "u1"
    /\ call.title = TitleSix
    /\ now = 3
    /\ DOMAIN call.before = {"u1", "u2"}
    /\ call.before["u1"] = [title |-> TitleBank, sent_at |-> [kind |-> "bad"]]
    /\ sent_news["u1"] = [title |-> TitleSix, sent_at |-> [kind |-> "iso", day |-> 3]]
    /\ sent_news["u2"] = call.before["u2"]
    /\ sentNewsFile = sent_news

\* C19 (as the claim states it): with a record whose sent_at is malformed or
\* missing in the history, no operation of the history raises out of run's
\* loop: the main thread never ends.
C19_CorruptHistoryNeverBlocks == pollPc # "raised"

\* ------------------------------------------------------------ the sweep
Swept == call.op = "cleanup_old_entries" /\ ~call.raised
Age(record) == now - FromIsoFormat(record.sent_at)
OneDayOld == [k \in {"u1"} |-> [title |-> TitleX, sent_at |-> IsoFormat(now - 1)]]

\* C21: a sweep removes every record whose age exceeds the horizon and no
\* other record, and leaves the kept records as they were; of one record
\* delivered a day ago a sweep with horizon 30 removes none and a sweep with
\* horizon 0 removes it.
C21_SweepRemovesExactlyExpired ==
    Swept =>
        /\ DOMAIN sent_news = {k \in DOMAIN call.before : Age(call.before[k]) <= call.days}
        /\ \A k \in DOMAIN sent_news : sent_news[k] = call.before[k]
        /\ call.before = OneDayOld /\ call.days = CleanupDays => sent_news = OneDayOld
        /\ call.before = OneDayOld /\ call.days = 0 => sent_news = EmptyStore

\* The Python value of an int.
IntValue(n) == [none |-> FALSE, value |-> n]

\* C22 as stated: a sweep returns the number of records it removed, and writes
\* sent_news.json exactly when that number is greater than zero.
C22_SweepReturnsCount ==
    Swept =>
        /\ call.result = IntValue(Cardinality(DOMAIN call.before) - Cardinality(DOMAIN sent_news))
        /\ call.saved <=> Cardinality(DOMAIN call.before) - Cardinality(DOMAIN sent_news) > 0

\* C22 amended: a sweep returns no value (the number of records it removed is
\* only logged), and writes sent_news.json exactly when it removed at least
\* one record; a sweep that removes nothing, or that raises, writes nothing.
C22_SweepSavesIffRemoved ==
    call.op = "cleanup_old_entries" =>
        /\ call.result = NoneValue
        /\ call.removed = Cardinality(DOMAIN call.before) - Cardinality(DOMAIN sent_news)
        /\ call.saved <=> Cardinality(DOMAIN call.before) - Cardinality(DOMAIN sent_news) > 0
        /\ call.saved => sentNewsFile = sent_news
        /\ call.raised => ~call.saved /\ sent_news = call.before

C22_Witness ==
    /\ Swept
    /\ Cardinality(DOMAIN call.before) = 2
    /\ call.removed = 1
    /\ call.saved
    /\ sentNewsFile = sent_news

\* C29: the sweep with its default horizon never changes a duplicate
\* verdict: over a history with well-formed timestamps is_duplicate answers
\* the same for every url and title right before and right after the sweep.
C29_SweepKeepsVerdicts ==
    Swept /\ call.days = CleanupDays =>
        \A url \in DedupUrls, title \in {TitleEmpty, TitleX, TitleABC, TitleABD} :
            IsDuplicate(call.before, now, url, title) = IsDuplicate(sent_news, now, url, title)

C29_Witness ==
    /\ Swept
    /\ call.days = CleanupDays
    /\ call.removed = 1
    /\ DOMAIN call.before = DedupUrls
    /\ IsDuplicate(sent_news, now, "u1", TitleABD)
    /\ ~IsDuplicate(sent_news, now, "u2", TitleABD)

\* ------------------------------------------------------ failing saves
\* C23: a save that fails during add or remove neither rolls the mutation
\* back nor raises: the call returns true, get_subscribers and membership
\* show the mutated set, and the next save that succeeds writes the whole
\* set in memory, so that the file equals the memory again.
C23_FailedSaveKeepsMutation ==
    call.op \in {"add", "remove"} /\ call.result =>
        /\ call.op = "add" => subscribers = call.before \cup {call.arg}
        /\ call.op = "remove" => subscribers = call.before \ {call.arg}
        /\ GetSubscribers(subscribers) = SetToSeq(subscribers)
        /\ call.saved => LoadSubscribers(subscribersFile) = subscribers
        /\ call.saved => subscribersFile = SetToSeq(subscribers)

C23_Witness ==
    /\ call.op = "add"
    /\ call.result
    /\ call.saved
    /\ LoadSubscribers(call.fileBefore) # call.before
    /\ Cardinality(subscribers) = 2
    /\ subscribersFile = SetToSeq(subscribers)

\* ------------------------------------------- the broadcast's snapshot
InBroadcast == {"mark", "marksave", "send"}
SentTo(log) == {log[k].to : k \in SendsOf(log)}

\* C24: the recipients of a batch are the members of the registry at the
\* moment broadcast_articles takes its list: the list does not change while
\* the broadcast runs, every send goes to one of its members, and when the
\* broadcast has returned each of them has been sent the whole batch, whatever
\* /start or /stop the commands thread has handled meanwhile.
C24_RecipientsAreSnapshot ==
    /\ [][(pollPc = "broadcast" /\ pollPc' # "broadcast") =>
            Range(recipients') = subscribers]_vars
    /\ [][(pollPc \in InBroadcast /\ pollPc' \in InBroadcast \cup {"cleanup"}) =>
            recipients' = recipients]_vars
    /\ [](pollPc \in InBroadcast \cup {"cleanup"} => SentTo(batchLog) \subseteq Range(recipients))
    /\ []((pollPc = "cleanup" /\ recipients # <<>> /\ articles # <<>>) =>
            \A c \in Range(recipients) :
                Cardinality({k \in SendsOf(batchLog) : batchLog[k].to = c})
                    = Len(articles) + 2)

\* C24's case: the one subscriber's /stop was handled after the snapshot, or
\* another chat's /start was, and the broadcast has returned.
C24_Witness ==
    /\ pollPc = "cleanup"
    /\ recipients = <<"42">>
    /\ articles # <<>>
    /\ subscribers \in {{}, {"42", "43"}}
    /\ SentTo(batchLog) = {"42"}

\* ------------------------------------------- commands that change nothing
\* C25: an update whose text is none of /start, /stop, /status is ignored,
\* no reply is sent and the registry and subscribers.json stay as they were;
\* /status leaves them as they were too and replies with the sender's
\* membership.  Of all the state only the offset has changed, to the
\* update's id, when the handling of such an update ends.
C25_OtherTextChangesOffsetOnly ==
    /\ [][(/\ cmdPc = "advance"
           /\ cmdPc' = "handle"
           /\ Head(updates).text \notin Mutators) =>
          /\ subscribers' = subscribers
          /\ subscribersFile' = subscribersFile
          /\ lastReply' = lastReply
          /\ last_update_id' = Head(updates).update_id
          /\ botStateFile' = Head(updates).update_id]_vars
    /\ [][(cmdPc = "handle" /\ Head(updates).text \notin Mutators) => cmdPc' # "save"]_vars
    /\ [][(/\ cmdPc = "handle"
           /\ updates' # updates
           /\ crashes' = crashes
           /\ Head(updates).text \notin Mutators) =>
          LET c == Head(updates).chat_id IN
          /\ subscribers' = subscribers
          /\ subscribersFile' = subscribersFile
          /\ last_update_id' = last_update_id
          /\ botStateFile' = botStateFile
          /\ IF Head(updates).text = "/status"
             THEN lastReply' = [to |-> c,
                                kind |-> IF c \in subscribers THEN "status subscribed"
                                         ELSE "status not subscribed"]
             ELSE lastReply' = lastReply]_vars
    /\ []((crashes = 0 /\ cmdPc = "poll" /\ consumed # {}
            /\ \A u \in consumed : u.text \notin Mutators \cup {"/status"}) =>
            lastReply = NoReply)

\* C25's case: "42" has sent /start, /status and a text that is no command,
\* in this order; the reply to /status is the last one sent.
C25_Witness ==
    /\ crashes = 0
    /\ cmdPc = "poll"
    /\ OnlyFrom("42")
    /\ {u.text : u \in consumed} = {"/start", "/status", "hello"}
    /\ \E u \in consumed :
          /\ u.text = "hello"
          /\ botStateFile = u.update_id
          /\ \A v \in consumed : v.update_id <= u.update_id
    /\ \E u \in consumed :
          /\ u.text = "/start"
          /\ \A v \in consumed : v.update_id >= u.update_id
    /\ lastReply = [to |-> "42", kind |-> "status subscribed"]
    /\ "42" \in subscribers

\* ------------------------------------------------------------ spacing
\* C26: within a broadcast two consecutive sends to one subscriber are never
\* back to back: whenever the next send goes to the subscriber the last one
\* went to, the spacing delay has happened since that last send.
C26_SpacingBetweenSends ==
    (pollPc = "send" /\ SendsOf(batchLog) # {}
        /\ batchLog[Len(batchLog)].to = recipients[si]) =>
        call.op = "sleep"

\* ----------------------------------------------------------- shutdown
\* C27: once the shutdown signal has been received both loops stop: the
\* main thread starts no further cycle and the commands thread starts no
\* further round of process_updates.
C27_LoopsStopAfterSignal ==
    [][signals > 0 =>
          /\ cycles' = cycles
          /\ cmdPc = "poll" => cmdPc' \in {"poll", "exited"}]_vars

\* ------------------------------------------------- the recorded title
\* C28: the title recorded for a delivered article is the one the filter
\* compares against: once the articles of a broadcast (with distinct urls)
\* are marked, is_duplicate answers true for the source title of each of them
\* under another url, translated or not.
C28_RecordedTitleIsFilterTitle ==
    (/\ pollPc \in {"send", "cleanup"}
     /\ MarksOf(batchLog) # {}
     /\ \A i, j \in DOMAIN articles : articles[i].url = articles[j].url => i = j) =>
        \A i \in DOMAIN articles : IsDuplicate(sent_news, now, "u3", articles[i].title)

\* ----------------------------------------------- the registry's contents
\* C30: without a crash, between two updates a chat that has sent /start or
\* /stop is in the registry exactly if the last of them was /start, and a
\* chat that has sent neither is in it exactly if it was loaded at the start:
\* the membership of a chat changes only while its own /start or /stop is
\* handled.
C30_MembershipFollowsLastCommand ==
    /\ []((crashes = 0 /\ cmdPc \in {"poll", "advance"}) =>
            \A c \in Chats :
                lastText[c] # "none" => (c \in subscribers <=> lastText[c] = "/start"))
    /\ [][crashes' = crashes =>
            \A c \in Chats :
                (c \in subscribers') # (c \in subscribers) =>
                    /\ cmdPc = "handle"
                    /\ Head(updates).chat_id = c
                    /\ Head(updates).text \in Mutators]_vars

\* C30's case: "42" has sent /start and then /stop, among three commands;
\* "43", loaded at the start, has sent neither.
C30_Witness ==
    /\ crashes = 0
    /\ cmdPc = "poll"
    /\ Cardinality(consumed) = 3
    /\ \E u, v \in consumed :
          /\ u.chat_id = "42" /\ u.text = "/start"
          /\ v.chat_id = "42" /\ v.text = "/stop"
          /\ u.update_id < v.update_id
    /\ lastText = [c \in Chats |-> IF c = "42" THEN "/stop" ELSE "none"]
    /\ subscribers = {"43"}

====
